---- MODULE Spec2Model ----
(***************************************************************************)
(* A model of the husky widgets: the edit-toolbar component                *)
(* (src/unnamed/part_000) and the auto-complete component                  *)
(* (src/husky_components/auto-complete/main.js).                           *)
(*                                                                         *)
(* JavaScript values are modelled as follows.  Strings are TLA+ strings;   *)
(* the value undefined is the string "undefined", so that string           *)
(* concatenation with an undefined operand gives what JavaScript gives     *)
(* ('icon-' + undefined = 'icon-undefined').  Falsy(v) is JavaScript's !v  *)
(* on these values.  Text typed into the auto-complete field is a sequence *)
(* of one-character strings, so that trim() and toLowerCase() are computed.*)
(***************************************************************************)
EXTENDS Integers, Sequences, FiniteSets, TLC

VARIABLES
    tbOptions,    \* tbOptions[t]: this.options of toolbar instance t
    tbPhase,      \* tbPhase[t]: where instance t is in its life cycle
    tbItems,      \* tbItems[t]: this.items, id -> item (<< >> before render)
    tbEl,         \* tbEl[t]: the rendered <li> elements, data-id -> element
    tbSkeletons,  \* tbSkeletons[t]: number of toolbar skeletons appended to el
    tbRenders,    \* tbRenders[t]: number of times render has run
    tbTrace,      \* tbTrace[t]: what the last render did, in order
    tbData,       \* tbData[t]: the data the last render was called with
    tbBodyBound,  \* tbBodyBound[t]: a one-shot body click handler is registered
    idCounter,    \* the counter behind sandbox.util.uniqueId (shared by the page)
    last,         \* what the most recently run handler did
    acOptions,    \* acOptions[i]: this.options of auto-complete instance i
    acMatched,    \* acMatched[i]: this.matched
    acMatches,    \* acMatches[i]: this.matches
    acValue,      \* acValue[i]: the value of $valueField
    acDataId,     \* acDataId[i]: the data-id attribute of $valueField
    acClasses,    \* acClasses[i]: the state classes on $el
    acData,       \* acData[i]: this.data
    acTotal,      \* acTotal[i]: this.total
    acEmitted     \* the events emitted so far, as <<instance, event name>>

tbVars == <<tbOptions, tbPhase, tbItems, tbEl, tbSkeletons, tbRenders, tbTrace,
            tbData, tbBodyBound, idCounter>>
acVars == <<acOptions, acMatched, acMatches, acValue, acDataId, acClasses,
            acData, acTotal, acEmitted>>
vars == <<tbVars, acVars, last>>

(***************************************************************************)
(* JavaScript values                                                       *)
(***************************************************************************)
Undefined == "undefined"

Falsy(v) == v \in {Undefined, ""}

(***************************************************************************)
(* Edit-toolbar: data                                                      *)
(***************************************************************************)
TB == {1, 2}

\* An item of the data structure (header doc): every optional key that is
\* missing is Undefined; hasItems says whether the key "items" is present.
\* parentId and loading are the two keys the component adds.
Item(id, title, icon, disabledIcon, disabled, type, callback, hasItems, items) ==
    [id |-> id, title |-> title, icon |-> icon, disabledIcon |-> disabledIcon,
     disabled |-> disabled, iconSize |-> Undefined, class |-> Undefined,
     group |-> Undefined, type |-> type, callback |-> callback,
     hasItems |-> hasItems, items |-> items, divider |-> FALSE,
     parentId |-> Undefined, loading |-> FALSE]

Divider ==
    [Item(Undefined, Undefined, Undefined, Undefined, FALSE, Undefined, FALSE,
          FALSE, << >>) EXCEPT !.divider = TRUE]

\* A rendered <li>: its classes, the <li> it is nested in, whether its <a>
\* is hidden, the number of its .item-loader children, the classes of the
\* first <span> of its link, the html of the second, and whether its link is
\* a .dropdown-toggle.
Element(classes, parent, icon, title, toggle, group) ==
    [classes |-> classes, parent |-> parent, hidden |-> FALSE, loaders |-> 0,
     icon |-> icon, title |-> title, toggle |-> toggle, group |-> group]

(***************************************************************************)
(* Edit-toolbar: pure helpers                                              *)
(***************************************************************************)
\* createEventName without the instance name: one name for every instance
createEventNameShared(instanceName, postFix) ==
    "husky.edit-toolbar." \o postFix

\* returns normalized event names
createEventName(instanceName, postFix) ==
    "husky.edit-toolbar."
        \o (IF ~Falsy(instanceName) THEN instanceName \o "." ELSE "")
        \o postFix

INITIALIZED(t) == createEventName(tbOptions[t].instanceName, "initialized")
ITEM_ENABLE(t) == createEventName(tbOptions[t].instanceName, "item.enable")
ITEM_DISABLE(t) == createEventName(tbOptions[t].instanceName, "item.disable")
ITEM_LOADING(t) == createEventName(tbOptions[t].instanceName, "item.loading")
ITEM_SELECT(t) == createEventName(tbOptions[t].instanceName, "item.select")

\* returns valid class for item and state
createIconClass(item, enabled) ==
    LET icon == IF enabled THEN item.icon
                ELSE IF ~Falsy(item.disabledIcon) THEN item.disabledIcon
                ELSE item.icon
    IN  "icon-" \o icon

\* creates the class string of an icon, as the set of its class names
createIconSupportClass(item, enabled) ==
    IF ~Falsy(item.icon)
    THEN {createIconClass(item, enabled), "icon"}
             \cup (IF ~Falsy(item.iconSize) THEN {item.iconSize} ELSE {})
    ELSE {}

\* sandbox.util.uniqueId called until it returns an id that is no key of
\* items: the value of the counter afterwards
RECURSIVE uniqueIdLoop(_, _)
uniqueIdLoop(items, counter) ==
    IF ToString(counter + 1) \in DOMAIN items
    THEN uniqueIdLoop(items, counter + 1)
    ELSE counter + 1

\* checkItemId without its test "|| !!this.items[item.id]": an id is
\* generated only when the item has none
checkItemIdWhenMissing(item, items, counter) ==
    LET generate == Falsy(item.id)
        c == IF generate THEN uniqueIdLoop(items, counter) ELSE counter
    IN  [item |-> [item EXCEPT
                      !.id = IF generate THEN ToString(c) ELSE item.id,
                      !.disabled = IF ~item.disabled THEN FALSE ELSE item.disabled],
         counter |-> c]

\* function checks if id is set and unique among all items, otherwise a new
\* id is generated for the element
checkItemId(item, items, counter) ==
    LET generate == Falsy(item.id) \/ item.id \in DOMAIN items
        c == IF generate THEN uniqueIdLoop(items, counter) ELSE counter
    IN  [item |-> [item EXCEPT
                      !.id = IF generate THEN ToString(c) ELSE item.id,
                      !.disabled = IF ~item.disabled THEN FALSE ELSE item.disabled],
         counter |-> c]

\* createDropdownMenu's foreach over parent.items, from sub-item k on.  st
\* carries items, el, counter, trace, the processed sub-items (out) and
\* classString, which the loop never resets.
RECURSIVE createDropdownLoop(_, _, _, _)
createDropdownLoop(subs, k, parentId, st) ==
    IF k > Len(subs) THEN st
    ELSE IF subs[k].divider
    THEN createDropdownLoop(subs, k + 1, parentId,
             [st EXCEPT !.trace = Append(@, <<"divider", parentId>>),
                        !.out = Append(@, subs[k])])
    ELSE
        LET chk == checkItemId([subs[k] EXCEPT !.parentId = parentId],
                               st.items, st.counter)
            item == chk.item
            classString == IF item.disabled THEN {"disabled"} ELSE st.classString
        IN  createDropdownLoop(subs, k + 1, parentId,
                [items |-> (item.id :> item) @@ st.items,
                 el |-> (item.id :> Element(classString, parentId, {},
                                            Undefined, FALSE, Undefined))
                            @@ st.el,
                 counter |-> chk.counter,
                 trace |-> Append(st.trace, <<"register", item.id>>),
                 out |-> Append(st.out, item),
                 classString |-> classString])

\* created dropdown menu
createDropdownMenu(parent, st) ==
    createDropdownLoop(parent.items, 1, parent.id,
                       [st EXCEPT !.out = << >>, !.classString = {}])

\* render's foreach over data, from item k on
RECURSIVE renderLoop(_, _, _)
renderLoop(data, k, st) ==
    IF k > Len(data) THEN st
    ELSE
        LET chk == checkItemId(data[k], st.items, st.counter)
            item == chk.item
            classArray == {"edit-toolbar-item"}
                              \cup (IF ~Falsy(item.class) THEN {item.class} ELSE {})
                              \cup (IF item.disabled THEN {"disabled"} ELSE {})
            addTo == IF ~Falsy(item.group) /\ item.group = "right"
                     THEN "right" ELSE "left"
            title == IF ~Falsy(item.title) THEN item.title ELSE ""
            st1 == [items |-> (item.id :> item) @@ st.items,
                    el |-> (item.id :> Element(classArray, Undefined,
                                   createIconSupportClass(item, ~item.disabled),
                                   title, item.hasItems, addTo))
                               @@ st.el,
                    counter |-> chk.counter,
                    trace |-> Append(st.trace, <<"register", item.id>>),
                    out |-> << >>,
                    classString |-> {}]
            st2 == IF item.hasItems THEN createDropdownMenu(item, st1) ELSE st1
            \* the sub-items are the objects parent.items holds
            st3 == IF item.hasItems
                   THEN [st2 EXCEPT !.items[item.id].items = st2.out]
                   ELSE st2
        IN  renderLoop(data, k + 1, st3)

\* renders the toolbar: the state of the instance after render(data)
render(t, data) ==
    LET st == renderLoop(data, 1,
                  [items |-> << >>, el |-> << >>, counter |-> idCounter,
                   trace |-> <<<<"skeleton">>>>, out |-> << >>,
                   classString |-> {}])
    IN  [st EXCEPT !.trace = Append(@, <<"emit", INITIALIZED(t)>>)]

\* What a handler did: the callbacks it invoked, the events it emitted (as
\* <<event name, id of the item passed>>), the lines it logged, and whether
\* it raised.  name is the event published to the sandbox, if any.
Effect(op, inst, name, id) ==
    [op |-> op, inst |-> inst, name |-> name, id |-> id, calls |-> 0,
     emits |-> << >>, logs |-> 0, raised |-> FALSE]

NoEffect == Effect("none", 0, "", Undefined)

(***************************************************************************)
(* Edit-toolbar: life cycle                                                *)
(***************************************************************************)
\* render.call(this, data) as a state change of instance t
DoRender(t, data) ==
    LET r == render(t, data)
    IN  /\ tbItems' = [tbItems EXCEPT ![t] = r.items]
        /\ tbEl' = [tbEl EXCEPT ![t] = r.el]
        /\ tbSkeletons' = [tbSkeletons EXCEPT ![t] = @ + 1]
        /\ tbRenders' = [tbRenders EXCEPT ![t] = @ + 1]
        /\ tbTrace' = [tbTrace EXCEPT ![t] = r.trace]
        /\ tbData' = [tbData EXCEPT ![t] = data]
        /\ idCounter' = r.counter

\* initialize component: with a url the data is loaded and render waits for
\* it; with data render runs at once; the handlers are bound in every case
initialize(t) ==
    /\ tbPhase[t] = "constructed"
    /\ IF ~Falsy(tbOptions[t].url)
       THEN /\ tbPhase' = [tbPhase EXCEPT ![t] = "loading"]
            /\ last' = Effect("initialize", t, "", Undefined)
            /\ UNCHANGED <<tbItems, tbEl, tbSkeletons, tbRenders, tbTrace,
                           tbData, idCounter>>
       ELSE IF tbOptions[t].hasData
       THEN /\ tbPhase' = [tbPhase EXCEPT ![t] = "rendered"]
            /\ DoRender(t, tbOptions[t].data)
            /\ last' = [Effect("initialize", t, "", Undefined)
                           EXCEPT !.emits = <<<<INITIALIZED(t), Undefined>>>>]
       ELSE /\ tbPhase' = [tbPhase EXCEPT ![t] = "nodata"]
            /\ last' = [Effect("initialize", t, "", Undefined) EXCEPT !.logs = 1]
            /\ UNCHANGED <<tbItems, tbEl, tbSkeletons, tbRenders, tbTrace,
                           tbData, idCounter>>
    /\ UNCHANGED <<tbOptions, tbBodyBound, acVars>>

\* sandbox.util.load(url) resolves with data: .then(this.render.bind(this))
loadThen(t, data) ==
    /\ tbPhase[t] = "loading"
    /\ tbPhase' = [tbPhase EXCEPT ![t] = "rendered"]
    /\ DoRender(t, data)
    /\ last' = [Effect("load.then", t, "", Undefined)
                   EXCEPT !.emits = <<<<INITIALIZED(t), Undefined>>>>]
    /\ UNCHANGED <<tbOptions, tbBodyBound, acVars>>

\* loadFail had render been chained with .always: the rejection renders an
\* empty toolbar
loadFailRenders(t) ==
    /\ tbPhase[t] = "loading"
    /\ tbPhase' = [tbPhase EXCEPT ![t] = "failed"]
    /\ DoRender(t, << >>)
    /\ last' = [Effect("load.fail", t, "", Undefined) EXCEPT !.logs = 1]
    /\ UNCHANGED <<tbOptions, tbBodyBound, acVars>>

\* sandbox.util.load(url) is rejected: .fail logs 'data could not be loaded:'
loadFail(t) ==
    /\ tbPhase[t] = "loading"
    /\ tbPhase' = [tbPhase EXCEPT ![t] = "failed"]
    /\ last' = [Effect("load.fail", t, "", Undefined) EXCEPT !.logs = 1]
    /\ UNCHANGED <<tbOptions, tbItems, tbEl, tbSkeletons, tbRenders, tbTrace,
                   tbData, tbBodyBound, idCounter, acVars>>

(***************************************************************************)
(* Edit-toolbar: the handlers of the custom events                         *)
(***************************************************************************)
\* The <li> elements $(sel, $item) searches: $item's descendants.  A
\* dropdown is one level deep.
Within(el, id) == {e \in DOMAIN el : e = id \/ el[e].parent = id}

\* this.items[id] is read without a check: a TypeError when this.items is
\* still undefined (render has not run) or holds no such id
Raises(t, id) == tbRenders[t] = 0 \/ id \notin DOMAIN tbItems[t]

\* toggleEnabled with $item matching the <li> nested in the item as well:
\* the class 'disabled' is toggled on the sub-items' elements too
toggleEnabledNested(t, enabled, id, highlight) ==
    [items |-> [tbItems[t] EXCEPT ![id].disabled = ~enabled,
                                  ![id].loading = FALSE],
     el |-> [e \in DOMAIN tbEl[t] |->
                IF e \in Within(tbEl[t], id)
                THEN [tbEl[t][e] EXCEPT
                         !.classes = IF enabled THEN @ \ {"disabled"}
                                     ELSE @ \cup {"disabled"},
                         !.loaders = IF tbItems[t][id].loading THEN 0 ELSE @,
                         !.hidden = IF tbItems[t][id].loading THEN FALSE ELSE @]
                ELSE tbEl[t][e]]]

\* set item enable or disable: the items and elements of t afterwards
toggleEnabled(t, enabled, id, highlight) ==
    LET item == tbItems[t][id]
        el == tbEl[t]
        enabledIconClass == createIconClass(item, TRUE)
        disabledIconClass == createIconClass(item, FALSE)
        \* in case of item has state loading, restore original state
        el1 == IF item.loading
               THEN [e \in DOMAIN el |->
                        IF e \in Within(el, id)
                        THEN [el[e] EXCEPT !.loaders = 0, !.hidden = FALSE]
                        ELSE el[e]]
               ELSE el
        cls1 == IF highlight # FALSE
                THEN el1[id].classes \cup {"highlight-animation"}
                ELSE el1[id].classes
        \* $iconItem: the .icon elements of $item
        hasIcon == "icon" \in el1[id].icon
        el2 == IF enabled
               THEN [el1 EXCEPT
                       ![id].classes = cls1 \ {"disabled"},
                       ![id].icon = IF hasIcon
                                    THEN (@ \ {disabledIconClass})
                                             \cup {enabledIconClass}
                                    ELSE @]
               ELSE [el1 EXCEPT
                       ![id].classes = cls1 \cup {"disabled"},
                       ![id].icon = IF hasIcon
                                    THEN (@ \ {enabledIconClass})
                                             \cup {disabledIconClass}
                                    ELSE @]
    IN  [items |-> [tbItems[t] EXCEPT ![id].disabled = ~enabled,
                                      ![id].loading = FALSE],
         el |-> el2]

\* shows loader at some icon: the items and elements of t afterwards
itemLoading(t, id) ==
    LET item == tbItems[t][id]
        el == tbEl[t]
    IN  IF item.loading
        THEN [items |-> tbItems[t], el |-> el]
        ELSE [items |-> [tbItems[t] EXCEPT ![id].loading = TRUE],
              el |-> [e \in DOMAIN el |->
                         IF e = id
                         THEN [el[e] EXCEPT !.hidden = TRUE, !.loaders = @ + 1]
                         ELSE IF e \in Within(el, id)
                         THEN [el[e] EXCEPT !.hidden = TRUE]
                         ELSE el[e]]]

\* events bound to sandbox: what the handler t bound for name (if any) does,
\* called with (id, highlight)
customEvent(t, name, id, highlight) ==
    IF name = ITEM_DISABLE(t) THEN toggleEnabled(t, FALSE, id, highlight)
    ELSE IF name = ITEM_ENABLE(t) THEN toggleEnabled(t, TRUE, id, highlight)
    ELSE itemLoading(t, id)

\* the instances that listen to name: bindCustomEvents has run
Subscribed(name) ==
    {t \in TB : /\ tbPhase[t] # "constructed"
                /\ name \in {ITEM_DISABLE(t), ITEM_ENABLE(t), ITEM_LOADING(t)}}

\* sandbox.emit(name, id, highlight) by the application
sandboxEmit(name, id, highlight) ==
    /\ tbItems' = [t \in TB |->
                      IF t \in Subscribed(name) /\ ~Raises(t, id)
                      THEN customEvent(t, name, id, highlight).items
                      ELSE tbItems[t]]
    /\ tbEl' = [t \in TB |->
                   IF t \in Subscribed(name) /\ ~Raises(t, id)
                   THEN customEvent(t, name, id, highlight).el
                   ELSE tbEl[t]]
    /\ last' = [Effect("emit", 0, name, id)
                   EXCEPT !.raised = \E t \in Subscribed(name) : Raises(t, id)]
    /\ UNCHANGED <<tbOptions, tbPhase, tbSkeletons, tbRenders, tbTrace,
                   tbData, tbBodyBound, idCounter, acVars>>

\* remove class after effect has finished
animationEnd(t, id) ==
    /\ id \in DOMAIN tbEl[t]
    /\ "highlight-animation" \in tbEl[t][id].classes
    /\ tbEl' = [tbEl EXCEPT ![t][id].classes = @ \ {"highlight-animation"}]
    /\ last' = Effect("animationend", t, "", id)
    /\ UNCHANGED <<tbOptions, tbPhase, tbItems, tbSkeletons, tbRenders, tbTrace,
                   tbData, tbBodyBound, idCounter, acVars>>

(***************************************************************************)
(* Edit-toolbar: the handlers of the DOM events                            *)
(***************************************************************************)
\* hides dropdowns of this instance
hideDropdowns(el) ==
    [e \in DOMAIN el |-> [el[e] EXCEPT !.classes = @ \ {"is-expanded"}]]

\* toggleItem without its call of hideDropdowns before it opens: the other
\* dropdowns stay as they are
toggleItemKeepsOthers(t, id) ==
    /\ id \in DOMAIN tbEl[t]
    /\ tbEl[t][id].toggle
    /\ LET item == tbItems[t][id]
           visible == "is-expanded" \in tbEl[t][id].classes
       IN  IF ~item.disabled
           THEN /\ tbEl' = [tbEl EXCEPT ![t][id].classes =
                               IF ~visible THEN @ \cup {"is-expanded"}
                               ELSE @ \ {"is-expanded"}]
                /\ tbBodyBound' = [tbBodyBound EXCEPT ![t] = @ \/ ~visible]
           ELSE UNCHANGED <<tbEl, tbBodyBound>>
    /\ last' = Effect("toggle", t, "", id)
    /\ UNCHANGED <<tbOptions, tbPhase, tbItems, tbSkeletons, tbRenders, tbTrace,
                   tbData, idCounter, acVars>>

\* gets called when toggle item is clicked, opens dropdown submenu.  The
\* click is on the a.dropdown-toggle of <li> id; stopPropagation keeps it
\* from the handlers bound to 'li'.
toggleItem(t, id) ==
    /\ id \in DOMAIN tbEl[t]
    /\ tbEl[t][id].toggle
    /\ LET item == tbItems[t][id]
           visible == "is-expanded" \in tbEl[t][id].classes
           hidden == hideDropdowns(tbEl[t])
       IN  IF ~item.disabled
           THEN /\ tbEl' = [tbEl EXCEPT ![t] =
                               IF ~visible
                               THEN [hidden EXCEPT ![id].classes =
                                                       @ \cup {"is-expanded"}]
                               ELSE hidden]
                \* on every click remove sub-menu
                /\ tbBodyBound' = [tbBodyBound EXCEPT ![t] = @ \/ ~visible]
           ELSE UNCHANGED <<tbEl, tbBodyBound>>
    /\ last' = Effect("toggle", t, "", id)
    /\ UNCHANGED <<tbOptions, tbPhase, tbItems, tbSkeletons, tbRenders, tbTrace,
                   tbData, idCounter, acVars>>

\* a click that reaches body: the handlers bound with one('body', 'click')
\* run and are unbound
bodyClick ==
    /\ \E t \in TB : tbBodyBound[t]
    /\ tbEl' = [t \in TB |-> IF tbBodyBound[t] THEN hideDropdowns(tbEl[t])
                             ELSE tbEl[t]]
    /\ tbBodyBound' = [t \in TB |-> FALSE]
    /\ last' = Effect("body", 0, "", Undefined)
    /\ UNCHANGED <<tbOptions, tbPhase, tbItems, tbSkeletons, tbRenders, tbTrace,
                   tbData, idCounter, acVars>>

\* changes the list items icon and title: the element listElement afterwards
changeMainListItem(listElement, item) ==
    [listElement EXCEPT
        \* removeClass(listItems.eq(0), '') removes no class
        !.icon = IF ~Falsy(item.icon)
                 THEN @ \cup createIconSupportClass(item, ~item.disabled)
                 ELSE @,
        !.title = IF ~Falsy(item.title) THEN item.title ELSE @]

\* triggerSelectEvent without its else: the select event is emitted after
\* the callback too
triggerSelectEventAlways(t, item, el) ==
    [el |-> el,
     calls |-> IF item.callback THEN 1 ELSE 0,
     emits |-> <<<<ITEM_SELECT(t), item.id>>>>]

\* either calls items callback (if set) or triggers select event: the
\* elements of t afterwards, the callbacks invoked and the events emitted
triggerSelectEvent(t, item, el) ==
    LET parentIsSelect ==
            /\ ~Falsy(item.parentId)
            /\ LET parentItem == tbItems[t][item.parentId]
               IN  ~Falsy(parentItem.type) /\ parentItem.type = "select"
    IN  [el |-> IF parentIsSelect
                THEN [el EXCEPT ![item.parentId] = changeMainListItem(@, item)]
                ELSE el,
         calls |-> IF item.callback THEN 1 ELSE 0,
         emits |-> IF item.callback THEN << >>
                   ELSE <<<<ITEM_SELECT(t), item.id>>>>]

\* when an element gets selected: the handler bound to 'li', run with
\* currentTarget the <li> id
selectItem(t, id, el) ==
    LET item == tbItems[t][id]
    IN  \* stop if item has subitems
        IF (item.hasItems /\ Len(item.items) > 0) \/ item.loading
        THEN [el |-> el, calls |-> 0, emits |-> << >>]
        ELSE IF ~item.disabled
        THEN triggerSelectEvent(t, item, el)
        ELSE [el |-> el, calls |-> 0, emits |-> << >>]

\* A click on the <li> id that no handler stops: the click bubbles, and the
\* handler bound to 'li' runs for the <li> and then for the <li> around it.
clickItem(t, id) ==
    /\ id \in DOMAIN tbEl[t]
    /\ LET r1 == selectItem(t, id, tbEl[t])
           parent == tbEl[t][id].parent
           r2 == IF parent # Undefined THEN selectItem(t, parent, r1.el)
                 ELSE [el |-> r1.el, calls |-> 0, emits |-> << >>]
           \* the click reaches body as well
           el == [tbEl EXCEPT ![t] = r2.el]
       IN  /\ tbEl' = [u \in TB |-> IF tbBodyBound[u] THEN hideDropdowns(el[u])
                                    ELSE el[u]]
           /\ tbBodyBound' = [u \in TB |-> FALSE]
           /\ last' = [Effect("click", t, "", id)
                          EXCEPT !.calls = r1.calls + r2.calls,
                                 !.emits = r1.emits \o r2.emits]
    /\ UNCHANGED <<tbOptions, tbPhase, tbItems, tbSkeletons, tbRenders, tbTrace,
                   tbData, idCounter, acVars>>

(***************************************************************************)
(* Auto-complete                                                           *)
(***************************************************************************)
AC == {1, 2}

\* String.prototype.toLowerCase, on the characters the model types
LowerChar(c) == IF c = "A" THEN "a" ELSE c

toLowerCase(str) == [k \in 1..Len(str) |-> LowerChar(str[k])]

\* String.prototype.trim
RECURSIVE trim(_)
trim(str) ==
    IF str = << >> THEN str
    ELSE IF Head(str) = " " THEN trim(Tail(str))
    ELSE IF str[Len(str)] = " " THEN trim(SubSeq(str, 1, Len(str) - 1))
    ELSE str

getEvent(i, append) == "husky.auto-complete." \o append

\* getClosestMatch returning the match recorded last
getClosestMatchLatest(i) == acMatches[i][Len(acMatches[i])]

getClosestMatchIsNull(i) == Len(acMatches[i]) = 0

getClosestMatch(i) == acMatches[i][1]

getValueFieldValue(i) == trim(acValue[i])

isMatched(i) == acMatched[i]

\* this.getClosestMatch !== null compares the function, not its result, and
\* is true always: with no match getClosestMatch().name is read off null
isMatchedExactlyRaises(i) == isMatched(i) = TRUE /\ getClosestMatchIsNull(i)

isMatchedExactly(i) ==
    /\ isMatched(i) = TRUE
    /\ toLowerCase(getValueFieldValue(i)) = toLowerCase(getClosestMatch(i).name)

setNoState(i, classes) == classes \ {acOptions[i].successClass, acOptions[i].failClass}

setSuccessState(i, classes) == classes \cup {acOptions[i].successClass}

setFailState(i, classes) == classes \cup {acOptions[i].failClass}

\* the template callback of bindTypeahead: typeahead renders suggestion context
template(i, context) ==
    /\ acMatches' = [acMatches EXCEPT ![i] = Append(@, context)]
    /\ acMatched' = [acMatched EXCEPT ![i] = TRUE]
    /\ last' = Effect("template", i, "", context.id)
    /\ UNCHANGED <<acOptions, acValue, acDataId, acClasses, acData, acTotal,
                   acEmitted, tbVars>>

handleData(i, data) ==
    /\ acData' = [acData EXCEPT ![i] = [null |-> FALSE, items |-> data.items]]
    /\ acTotal' = [acTotal EXCEPT ![i] = data.total]

\* prefetch.filter
prefetchFilter(i, data) ==
    /\ acEmitted' = acEmitted \cup {<<i, getEvent(i, "prefetch-data")>>}
    /\ handleData(i, data)
    /\ last' = [Effect("prefetch.filter", i, "", Undefined)
                   EXCEPT !.emits = <<<<getEvent(i, "prefetch-data"), Undefined>>>>,
                          !.logs = 1]
    /\ UNCHANGED <<acOptions, acMatched, acMatches, acValue, acDataId,
                   acClasses, tbVars>>

\* remote.beforeSend
remoteBeforeSend(i) ==
    /\ acEmitted' = acEmitted \cup {<<i, getEvent(i, "remote-data-load")>>}
    /\ last' = [Effect("remote.beforeSend", i, "", Undefined)
                   EXCEPT !.emits = <<<<getEvent(i, "remote-data-load"), Undefined>>>>]
    /\ UNCHANGED <<acOptions, acMatched, acMatches, acValue, acDataId,
                   acClasses, acData, acTotal, tbVars>>

\* remote.filter
remoteFilter(i, data) ==
    /\ acEmitted' = acEmitted \cup {<<i, getEvent(i, "remote-data")>>}
    /\ handleData(i, data)
    /\ last' = [Effect("remote.filter", i, "", Undefined)
                   EXCEPT !.emits = <<<<getEvent(i, "remote-data"), Undefined>>>>,
                          !.logs = 1]
    /\ UNCHANGED <<acOptions, acMatched, acMatches, acValue, acDataId,
                   acClasses, tbVars>>

\* the 'typeahead:selected' handler of setEvents
selected(i, datum) ==
    /\ acEmitted' = acEmitted \cup {<<i, getEvent(i, "select")>>}
    /\ acDataId' = [acDataId EXCEPT ![i] = datum.id]
    /\ last' = [Effect("typeahead:selected", i, "", datum.id)
                   EXCEPT !.emits = <<<<getEvent(i, "select"), Undefined>>>>]
    /\ UNCHANGED <<acOptions, acMatched, acMatches, acValue, acClasses, acData,
                   acTotal, tbVars>>

\* the 'keydown' handler of setEvents
keydown(i) ==
    /\ acMatched' = [acMatched EXCEPT ![i] = FALSE]
    /\ acMatches' = [acMatches EXCEPT ![i] = << >>]
    /\ acClasses' = [acClasses EXCEPT ![i] = setNoState(i, @)]
    /\ last' = Effect("keydown", i, "", Undefined)
    /\ UNCHANGED <<acOptions, acValue, acDataId, acData, acTotal, acEmitted,
                   tbVars>>

\* the browser puts what the user typed into $valueField
input(i, str) ==
    /\ acValue[i] # str
    /\ acValue' = [acValue EXCEPT ![i] = str]
    /\ last' = Effect("input", i, "", Undefined)
    /\ UNCHANGED <<acOptions, acMatched, acMatches, acDataId, acClasses, acData,
                   acTotal, acEmitted, tbVars>>

\* the 'blur' handler of setEvents
handleBlur(i) ==
    /\ IF acOptions[i].noNewValues = TRUE
       THEN IF isMatched(i) = TRUE /\ ~getClosestMatchIsNull(i)
            THEN /\ acValue' = [acValue EXCEPT ![i] = getClosestMatch(i).name]
                 /\ acDataId' = [acDataId EXCEPT ![i] = getClosestMatch(i).id]
                 /\ acClasses' = [acClasses EXCEPT ![i] = setSuccessState(i, @)]
                 /\ last' = Effect("blur", i, "", Undefined)
            ELSE /\ acClasses' = [acClasses EXCEPT ![i] = setFailState(i, @)]
                 /\ last' = Effect("blur", i, "", Undefined)
                 /\ UNCHANGED <<acValue, acDataId>>
       ELSE IF isMatchedExactlyRaises(i)
            THEN /\ last' = [Effect("blur", i, "", Undefined)
                                EXCEPT !.raised = TRUE]
                 /\ UNCHANGED <<acValue, acDataId, acClasses>>
            ELSE IF isMatchedExactly(i)
            THEN /\ acValue' = [acValue EXCEPT ![i] = getClosestMatch(i).name]
                 /\ acDataId' = [acDataId EXCEPT ![i] = getClosestMatch(i).id]
                 /\ last' = Effect("blur", i, "", Undefined)
                 /\ UNCHANGED acClasses
            ELSE /\ last' = Effect("blur", i, "", Undefined)
                 /\ UNCHANGED <<acValue, acDataId, acClasses>>
    /\ UNCHANGED <<acOptions, acMatched, acMatches, acData, acTotal, acEmitted,
                   tbVars>>

(***************************************************************************)
(* Bounds and the inputs the specifications draw from                      *)
(***************************************************************************)
\* the most entries (items, sub-items and dividers) of a generated data set
MaxItems == 3
\* the most the page has drawn from uniqueId before the toolbar renders
MaxCounter == 1
\* the most characters typed into the auto-complete field
MaxLen == 2
\* the most suggestions typeahead renders between two keystrokes
MaxMatches == 2

\* var defaults of the edit-toolbar, with the options that override them
Options(url, hasData, data, instanceName) ==
    [url |-> url, hasData |-> hasData, data |-> data,
     instanceName |-> instanceName]

\* ids of generated data: missing, falsy, and two ids that can collide with
\* each other and with generated ones
IdChoices == {Undefined, "", "a", "1"}

IdItem(id, hasItems, items) ==
    Item(id, "t", Undefined, Undefined, FALSE, Undefined, FALSE, hasItems, items)

SubEntries == {Divider} \cup {IdItem(id, FALSE, << >>) : id \in IdChoices}

\* the top-level items of n entries: the item and the entries of its dropdown
TopItems(n) ==
    (IF n = 1 THEN {IdItem(id, FALSE, << >>) : id \in IdChoices} ELSE {})
        \cup {IdItem(c[1], TRUE, c[2]) :
                  c \in IdChoices \X [1..(n - 1) -> SubEntries]}

\* the data sets of at most n entries
RECURSIVE DataSets(_)
DataSets(n) ==
    {<< >>} \cup
        UNION {{<<c[1]>> \o c[2] : c \in TopItems(w) \X DataSets(n - w)} :
                   w \in 1..n}

\* two toolbars an application would configure: a language select, and an
\* options menu beside a button whose dropdown is empty
LangItem ==
    Item("lang", "Language", "globe", "globe-off", FALSE, "select", FALSE, TRUE,
         << Item(Undefined, "DE", "flag-de", Undefined, FALSE, Undefined, FALSE,
                 FALSE, << >>),
            Divider,
            Item("en", "EN", Undefined, Undefined, TRUE, Undefined, TRUE,
                 FALSE, << >>) >>)

OptsItem ==
    Item("opts", "Options", Undefined, Undefined, FALSE, Undefined, TRUE, TRUE,
         << Item("export", "Export", "share", Undefined, FALSE, Undefined, TRUE,
                 FALSE, << >>) >>)

ToolsItem ==
    Item("tools", "Tools", "wrench", Undefined, TRUE, Undefined, FALSE, TRUE,
         << >>)

Toolbars == {<<LangItem>>, <<OptsItem, ToolsItem>>}

InstanceNames == {"", "tab1", "tab2"}

\* the auto-complete's suggestions and the responses of its data sources
Chars == {"a", "A", " "}

Texts == UNION {[1..k -> Chars] : k \in 0..MaxLen}

Suggestions == {[id |-> "1", name |-> <<"A">>], [id |-> "2", name |-> <<"a", "a">>]}

Responses ==
    {[items |-> <<[id |-> "1", name |-> <<"A">>]>>, total |-> 1],
     [items |-> << >>, total |-> 0]}

\* var defaults of the auto-complete, with the options that override them
AcOptions(instanceName, noNewValues) ==
    [instanceName |-> instanceName, noNewValues |-> noNewValues,
     successClass |-> "husky-auto-complete-success",
     failClass |-> "husky-auto-complete-error"]

(***************************************************************************)
(* Specifications                                                          *)
(***************************************************************************)
\* toolbars constructed with options from O, none initialized yet
InitToolbars(O) ==
    /\ tbOptions \in O
    /\ tbPhase = [t \in TB |-> "constructed"]
    /\ tbItems = [t \in TB |-> << >>]
    /\ tbEl = [t \in TB |-> << >>]
    /\ tbSkeletons = [t \in TB |-> 0]
    /\ tbRenders = [t \in TB |-> 0]
    /\ tbTrace = [t \in TB |-> << >>]
    /\ tbData = [t \in TB |-> << >>]
    /\ tbBodyBound = [t \in TB |-> FALSE]
    /\ idCounter \in 0..MaxCounter
    /\ last = NoEffect

\* auto-completes with options from O, after initialize: no value is given,
\* so the field is empty and its data-id reads 'null'
InitAutoCompletes(O) ==
    /\ acOptions \in O
    /\ acMatched = [i \in AC |-> TRUE]
    /\ acMatches = [i \in AC |-> << >>]
    /\ acValue = [i \in AC |-> << >>]
    /\ acDataId = [i \in AC |-> "null"]
    /\ acClasses = [i \in AC |-> {"husky-auto-complete"}]
    /\ acData = [i \in AC |-> [null |-> TRUE, items |-> << >>]]
    /\ acTotal = [i \in AC |-> 0]
    /\ acEmitted = {}

DefaultToolbar == Options("", TRUE, << >>, "")

DefaultAutoComplete == AcOptions("undefined", FALSE)

\* the life cycle of the toolbars in A: D is the data a url may serve
LifeCycle(A, D) ==
    \/ \E t \in A : initialize(t)
    \/ \E t \in A : tbPhase[t] = "loading" /\ \E data \in D : loadThen(t, data)
    \/ \E t \in A : loadFail(t)

\* the custom events the application emits to the toolbars in A: H is the
\* highlight arguments it passes
Events(A, H) ==
    \E t \in A :
        \E id \in DOMAIN tbItems[t] \cup {"nosuch"}, highlight \in H,
           name \in {ITEM_ENABLE(t), ITEM_DISABLE(t), ITEM_LOADING(t)} :
            sandboxEmit(name, id, highlight)

\* the clicks of the user on the toolbars in A
Clicks(A) ==
    \/ \E t \in A : \E id \in DOMAIN tbEl[t] : toggleItem(t, id)
    \/ \E t \in A : \E id \in DOMAIN tbEl[t] : clickItem(t, id)
    \/ bodyClick

\* one toolbar of an application, with its data given
Init ==
    /\ InitToolbars({[t \in TB |-> IF t = 1 THEN Options("", TRUE, d, "tab1")
                                   ELSE DefaultToolbar] : d \in Toolbars})
    /\ InitAutoCompletes({[i \in AC |-> DefaultAutoComplete]})

Next ==
    \/ \E t \in {1} : initialize(t)
    \/ Events({1}, {FALSE})
    \/ Clicks({1})

Spec == Init /\ [][Next]_vars

GeneratedData == DataSets(MaxItems)

\* one toolbar rendered from any data set, given or served by a url that
\* may fail, or left without data
InitRender ==
    /\ InitToolbars({[t \in TB |-> IF t = 1 THEN o ELSE DefaultToolbar] :
                        o \in {Options("", TRUE, d, "") : d \in GeneratedData}
                                  \cup {Options("/toolbar", TRUE, << >>, ""),
                                        Options("", FALSE, << >>, "")}})
    /\ InitAutoCompletes({[i \in AC |-> DefaultAutoComplete]})

NextRender == LifeCycle({1}, GeneratedData)

SpecRender == InitRender /\ [][NextRender]_vars

\* two toolbars on one page, each with a name of its own or none
PageToolbars == {<<[ToolsItem EXCEPT !.hasItems = FALSE, !.disabled = FALSE]>>}

InitPage ==
    /\ InitToolbars([TB -> {Options("", TRUE, d, n) :
                                d \in PageToolbars, n \in InstanceNames}])
    /\ idCounter = 0
    /\ InitAutoCompletes({[i \in AC |-> DefaultAutoComplete]})

NextPage ==
    \/ \E t \in TB : initialize(t)
    \/ Events(TB, BOOLEAN)
    \/ \E t \in TB : \E id \in DOMAIN tbEl[t] : animationEnd(t, id)
    \/ \E t \in TB : \E id \in DOMAIN tbEl[t] : clickItem(t, id)

SpecPage == InitPage /\ [][NextPage]_vars

\* no toolbar on the page
IdleToolbars ==
    /\ InitToolbars({[t \in TB |-> DefaultToolbar]})
    /\ idCounter = 0

\* one auto-complete, with free text permitted or not
InitAC ==
    /\ IdleToolbars
    /\ InitAutoCompletes({[i \in AC |-> IF i = 1 THEN AcOptions("field", n)
                                        ELSE DefaultAutoComplete] :
                             n \in BOOLEAN})

NextAC ==
    \E i \in {1} :
        \/ \E context \in Suggestions :
               Len(acMatches[i]) < MaxMatches /\ template(i, context)
        \/ \E datum \in Suggestions : selected(i, datum)
        \/ keydown(i)
        \/ \E str \in Texts : input(i, str)
        \/ handleBlur(i)

SpecAC == InitAC /\ [][NextAC]_vars

\* two auto-completes on one page, each with a name of its own or the
\* default one, loading data and having suggestions selected
InitACPage ==
    /\ IdleToolbars
    /\ InitAutoCompletes([AC -> {AcOptions(n, FALSE) :
                                     n \in {"undefined", "field1", "field2"}}])

NextACPage ==
    \E i \in AC :
        \/ \E datum \in Suggestions : selected(i, datum)
        \/ \E data \in Responses : prefetchFilter(i, data)
        \/ \E data \in Responses : remoteFilter(i, data)
        \/ remoteBeforeSend(i)

SpecACPage == InitACPage /\ [][NextACPage]_vars

\* one toolbar with one dropdown, whose item and sub-items are given
\* disabled or enabled
MenuEntries ==
    {Divider} \cup
        {Item(Undefined, "t", Undefined, Undefined, d, Undefined, FALSE, FALSE,
              << >>) : d \in BOOLEAN}

MenuData ==
    {<<Item("menu", "Menu", "list", Undefined, d, Undefined, FALSE, TRUE, subs)>> :
         d \in BOOLEAN,
         subs \in UNION {[1..k -> MenuEntries] : k \in 0..(MaxItems - 1)}}

InitMenu ==
    /\ InitToolbars({[t \in TB |-> IF t = 1 THEN Options("", TRUE, d, "")
                                   ELSE DefaultToolbar] : d \in MenuData})
    /\ idCounter = 0
    /\ InitAutoCompletes({[i \in AC |-> DefaultAutoComplete]})

NextMenu ==
    \/ \E t \in {1} : initialize(t)
    \/ Events({1}, {FALSE})

SpecMenu == InitMenu /\ [][NextMenu]_vars


\* one toolbar configured with a url that serves the options menu, or fails;
\* the application emits events for the ids it expects the toolbar to have
\* as soon as the component is initialized, and the user clicks
ServedData == <<OptsItem, ToolsItem>>

ServedIds ==
    UNION {{ServedData[k].id}
               \cup {ServedData[k].items[j].id :
                         j \in 1..Len(ServedData[k].items)} :
           k \in 1..Len(ServedData)}

EventsFor(A, ids) ==
    \E t \in A :
        \E id \in ids,
           name \in {ITEM_ENABLE(t), ITEM_DISABLE(t), ITEM_LOADING(t)} :
            sandboxEmit(name, id, FALSE)

InitUrl ==
    /\ InitToolbars({[t \in TB |-> IF t = 1
                                   THEN Options("/toolbar", TRUE, << >>, "tab1")
                                   ELSE DefaultToolbar]})
    /\ idCounter = 0
    /\ InitAutoCompletes({[i \in AC |-> DefaultAutoComplete]})

NextUrl ==
    \/ LifeCycle({1}, {ServedData})
    \/ EventsFor({1}, ServedIds)
    \/ Clicks({1})

SpecUrl == InitUrl /\ [][NextUrl]_vars


(***************************************************************************)
(* Properties                                                              *)
(***************************************************************************)
\* the items of a data set that are no dividers, in the order render and
\* createDropdownMenu visit them
RECURSIVE Visited(_)
Visited(data) ==
    IF data = << >> THEN << >>
    ELSE <<Head(data)>>
             \o SelectSeq(Head(data).items, LAMBDA x : ~x.divider)
             \o Visited(Tail(data))

\* the ids render registered in this.items, in order
Registered(t) ==
    LET regs == SelectSeq(tbTrace[t], LAMBDA e : e[1] = "register")
    IN  [k \in 1..Len(regs) |-> regs[k][2]]

\* after render of instance t every non-divider item has an id no other
\* item has, and this.items and the DOM hold one entry per item under it
UniqueAfterRender(t) ==
    LET given == Visited(tbData[t])
        ids == Registered(t)
    IN  /\ Len(ids) = Len(given)
        /\ \A j, k \in 1..Len(ids) : j # k => ids[j] # ids[k]
        /\ \A k \in 1..Len(ids) : ~Falsy(ids[k])
        /\ DOMAIN tbItems[t] = {ids[k] : k \in 1..Len(ids)}
        /\ Cardinality(DOMAIN tbItems[t]) = Len(given)
        /\ \A id \in DOMAIN tbItems[t] : tbItems[t][id].id = id
        /\ DOMAIN tbEl[t] = DOMAIN tbItems[t]

C9_FetchOutcome ==
    \A t \in TB :
        ~Falsy(tbOptions[t].url) =>
            /\ tbPhase[t] \in {"loading", "failed"} =>
                   /\ tbRenders[t] = 0
                   /\ tbSkeletons[t] = 0
                   /\ tbItems[t] = << >>
                   /\ tbEl[t] = << >>
                   /\ tbTrace[t] = << >>
                   /\ last.emits = << >>
                   /\ ~last.raised
            /\ tbPhase[t] = "failed" => last.op = "load.fail" /\ last.logs = 1
            /\ tbPhase[t] = "rendered" =>
                   /\ tbRenders[t] = 1
                   /\ tbSkeletons[t] = 1
                   /\ Len(SelectSeq(tbTrace[t], LAMBDA e : e[1] = "emit")) = 1
                   /\ tbTrace[t][Len(tbTrace[t])] =
                          <<"emit", "husky.edit-toolbar.initialized">>
                   /\ Len(Registered(t)) = Len(Visited(tbData[t]))
                   /\ {Registered(t)[k] : k \in 1..Len(Registered(t))}
                          = DOMAIN tbItems[t]
                   /\ last.emits = <<<<"husky.edit-toolbar.initialized", Undefined>>>>
                   /\ ~last.raised

\* the fetch has failed
C9_Witness ==
    /\ ~Falsy(tbOptions[1].url)
    /\ tbPhase[1] = "failed"
    /\ last.logs = 1

\* C2: a click on an item that is enabled, not loading and without
\* sub-items invokes its callback once and emits nothing when it has a
\* callback, and emits item.select once with the item and invokes nothing
\* when it has none; a click on an item that is disabled, loading or has
\* sub-items invokes no callback and emits nothing.
C2_ClickSelects ==
    last.op = "click" =>
        LET t == last.inst
            item == tbItems[t][last.id]
        IN  IF /\ ~item.disabled
               /\ ~item.loading
               /\ ~(item.hasItems /\ Len(item.items) > 0)
            THEN IF item.callback
                 THEN last.calls = 1 /\ last.emits = << >>
                 ELSE /\ last.calls = 0
                      /\ last.emits =
                             <<<<"husky.edit-toolbar." \o tbOptions[t].instanceName
                                     \o ".item.select", item.id>>>>
            ELSE last.calls = 0 /\ last.emits = << >>

\* an enabled sub-item without callback was clicked, and its select event
\* emitted
C2_Witness ==
    /\ last.op = "click"
    /\ last.id \in DOMAIN tbItems[1]
    /\ tbItems[1][last.id].parentId = "lang"
    /\ ~tbItems[1][last.id].disabled
    /\ ~tbItems[1][last.id].callback
    /\ Len(last.emits) = 1
    /\ last.calls = 0

\* the step is the application's emit of item.enable (enabled) or
\* item.disable of instance t with the id x of one of its items
ToggledBy(t, x, enabled) ==
    /\ tbPhase[t] # "constructed"
    /\ x \in DOMAIN tbItems[t]
    /\ last'.op = "emit"
    /\ last'.id = x
    /\ last'.name = IF enabled THEN ITEM_ENABLE(t) ELSE ITEM_DISABLE(t)

\* C3: item.disable with id X leaves item X disabled and its element with
\* the class 'disabled'; item.enable leaves it enabled and without the
\* class; the disabled flag, disabled class and loading flag of every other
\* item are as before.
C3_EnableDisable ==
    [][\A t \in TB : \A x \in DOMAIN tbItems[t] : \A enabled \in BOOLEAN :
           ToggledBy(t, x, enabled) =>
               /\ tbItems'[t][x].disabled = ~enabled
               /\ ("disabled" \in tbEl'[t][x].classes) = ~enabled
               /\ \A y \in DOMAIN tbItems[t] \ {x} :
                      /\ tbItems'[t][y].disabled = tbItems[t][y].disabled
                      /\ tbItems'[t][y].loading = tbItems[t][y].loading
                      /\ ("disabled" \in tbEl'[t][y].classes)
                             = ("disabled" \in tbEl[t][y].classes)]_vars

\* the dropdown "lang" was disabled while its sub-item "en" is loading and
\* another sub-item is enabled
C3_Witness ==
    /\ last.op = "emit"
    /\ last.name = "husky.edit-toolbar.tab1.item.disable"
    /\ last.id = "lang"
    /\ tbPhase[1] = "rendered"
    /\ "lang" \in DOMAIN tbItems[1]
    /\ tbItems[1]["lang"].disabled
    /\ "disabled" \in tbEl[1]["lang"].classes
    /\ tbItems[1]["en"].loading
    /\ \E y \in DOMAIN tbItems[1] :
           /\ tbItems[1][y].parentId = "lang"
           /\ ~tbItems[1][y].disabled
           /\ "disabled" \notin tbEl[1][y].classes

\* the step is a click on the sub-item x of instance t that selects it
SelectedSubItem(t, x) ==
    /\ x \in DOMAIN tbItems[t]
    /\ last'.op = "click"
    /\ last'.inst = t
    /\ last'.id = x
    /\ ~Falsy(tbItems[t][x].parentId)
    /\ ~tbItems[t][x].disabled
    /\ ~tbItems[t][x].loading

\* C4: selecting an enabled sub-item of a parent of type 'select' makes the
\* parent's title the sub-item's title and the parent's icon the
\* sub-item's: the icon element carries the sub-item's icon class and no
\* longer the parent's; with a parent of another type the parent's title
\* and icon stay as they are.
C4_SelectShowsChild ==
    [][\A t \in TB : \A x \in DOMAIN tbItems[t] :
           SelectedSubItem(t, x) =>
               LET item == tbItems[t][x]
                   p == item.parentId
                   parentItem == tbItems[t][p]
               IN  IF parentItem.type = "select"
                   THEN /\ tbEl'[t][p].title = item.title
                        /\ createIconClass(item, TRUE) \in tbEl'[t][p].icon
                        /\ \A c \in {createIconClass(parentItem, TRUE),
                                     createIconClass(parentItem, FALSE)} :
                               c # createIconClass(item, TRUE) =>
                                   c \notin tbEl'[t][p].icon
                   ELSE /\ tbEl'[t][p].title = tbEl[t][p].title
                        /\ tbEl'[t][p].icon = tbEl[t][p].icon]_vars

\* the name the header doc gives the event postFix of instance t
DocumentedName(t, postFix) ==
    IF tbOptions[t].instanceName = ""
    THEN "husky.edit-toolbar." \o postFix
    ELSE "husky.edit-toolbar." \o tbOptions[t].instanceName \o "." \o postFix

\* the names instance t has emitted events under, and listens to
NamesUsed(t) ==
    [initialized |-> {e[2] : e \in {tbTrace[t][k] : k \in 1..Len(tbTrace[t])}
                                       \cap ({"emit"} \X {INITIALIZED(u) : u \in TB})},
     select |-> IF last.op = "click" /\ last.inst = t
                THEN {last.emits[k][1] : k \in 1..Len(last.emits)} ELSE {},
     enable |-> ITEM_ENABLE(t), disable |-> ITEM_DISABLE(t),
     loading |-> ITEM_LOADING(t)]

\* C5: every event name of an instance is husky.edit-toolbar.<instanceName>.
\* <postfix>, or husky.edit-toolbar.<postfix> when the name is empty; and
\* with two instances of distinct non-empty names, an enable, disable or
\* loading event addressed to one changes no item's disabled or loading
\* state in the other.
C5_InstanceEvents ==
    [][/\ \A t \in TB :
              /\ NamesUsed(t).initialized' \subseteq {DocumentedName(t, "initialized")}
              /\ NamesUsed(t).select' \subseteq {DocumentedName(t, "item.select")}
              /\ NamesUsed(t).enable = DocumentedName(t, "item.enable")
              /\ NamesUsed(t).disable = DocumentedName(t, "item.disable")
              /\ NamesUsed(t).loading = DocumentedName(t, "item.loading")
       /\ \A t, u \in TB :
              /\ t # u
              /\ tbOptions[t].instanceName # ""
              /\ tbOptions[u].instanceName # ""
              /\ tbOptions[t].instanceName # tbOptions[u].instanceName
              /\ last'.op = "emit"
              /\ last'.name \in {DocumentedName(t, "item.enable"),
                                 DocumentedName(t, "item.disable"),
                                 DocumentedName(t, "item.loading")}
              => \A y \in DOMAIN tbItems[u] :
                     /\ tbItems'[u][y].disabled = tbItems[u][y].disabled
                     /\ tbItems'[u][y].loading = tbItems[u][y].loading]_vars

\* both instances are rendered under distinct names, and an item of the
\* first was disabled by an event that left its namesake in the second
\* enabled
C5_Witness ==
    /\ tbOptions[1].instanceName = "tab1"
    /\ tbOptions[2].instanceName = "tab2"
    /\ tbPhase[1] = "rendered"
    /\ tbPhase[2] = "rendered"
    /\ last.op = "emit"
    /\ last.name = "husky.edit-toolbar.tab1.item.disable"
    /\ last.id = "tools"
    /\ tbItems[1]["tools"].disabled
    /\ ~tbItems[2]["tools"].disabled

\* C6: two auto-complete instances configured with different instanceName
\* options emit their events (select, prefetch-data, remote-data-load,
\* remote-data) under different names.
C6_EventsNamespaced ==
    \A e, f \in acEmitted :
        /\ e[1] # f[1]
        /\ acOptions[e[1]].instanceName # acOptions[f[1]].instanceName
        => e[2] # f[2]

\* the step is a blur of auto-complete i
Blurred(i) == last'.op = "blur" /\ last'.inst = i

C8_KeydownResets ==
    [][\A i \in AC :
           last'.op = "keydown" /\ last'.inst = i =>
               /\ acMatched'[i] = FALSE
               /\ acMatches'[i] = << >>
               /\ acDataId[i] # "null" => acDataId'[i] # acDataId[i]
               /\ acClasses'[i] \cap {"husky-auto-complete-success",
                                      "husky-auto-complete-error"} = {}]_vars

\* C10: with noNewValues = false a blur raises nothing in any state and adds
\* neither class; value and data-id become the closest match's name and id
\* when the trimmed value equals that name ignoring case, and stay as they
\* are otherwise.
C10_FreeTextBlur ==
    [][\A i \in AC :
           Blurred(i) /\ acOptions[i].noNewValues = FALSE =>
               /\ ~last'.raised
               /\ acClasses'[i] = acClasses[i]
               /\ IF /\ Len(acMatches[i]) > 0
                     /\ toLowerCase(trim(acValue[i]))
                            = toLowerCase(acMatches[i][1].name)
                  THEN /\ acValue'[i] = acMatches[i][1].name
                       /\ acDataId'[i] = acMatches[i][1].id
                  ELSE /\ acValue'[i] = acValue[i]
                       /\ acDataId'[i] = acDataId[i]]_vars

\* the loader and the link of every item of t agree with its loading flag
LoaderMatchesFlag(t) ==
    \A x \in DOMAIN tbItems[t] :
        /\ tbEl[t][x].loaders <= 1
        /\ tbItems[t][x].loading = (tbEl[t][x].loaders >= 1 /\ tbEl[t][x].hidden)

\* the step is the application's emit of the event name of instance t with
\* the id x of one of its items
EmittedTo(t, x, name) ==
    /\ tbPhase[t] # "constructed"
    /\ x \in DOMAIN tbItems[t]
    /\ last'.op = "emit"
    /\ last'.id = x
    /\ last'.name = name

\* C11: after any sequence of item.loading, item.enable and item.disable
\* events every item has at most one loader element, and its loading flag
\* is true exactly when a loader is present and its link is hidden;
\* item.loading for an item already loading changes nothing; item.enable or
\* item.disable for a loading item sets loading to false, removes the loader
\* and shows the link.
C11_LoadingTransient ==
    /\ [](\A t \in TB : LoaderMatchesFlag(t))
    /\ [][\A t \in TB : \A x \in DOMAIN tbItems[t] :
              /\ EmittedTo(t, x, ITEM_LOADING(t)) /\ tbItems[t][x].loading =>
                     tbItems'[t] = tbItems[t] /\ tbEl'[t] = tbEl[t]
              /\ /\ \/ EmittedTo(t, x, ITEM_ENABLE(t))
                    \/ EmittedTo(t, x, ITEM_DISABLE(t))
                 /\ tbItems[t][x].loading
                 => /\ ~tbItems'[t][x].loading
                    /\ tbEl'[t][x].loaders = 0
                    /\ ~tbEl'[t][x].hidden]_vars

\* the items of t whose dropdown is expanded
Expanded(t) == {x \in DOMAIN tbEl[t] : "is-expanded" \in tbEl[t][x].classes}

\* C12: at most one dropdown of an instance is expanded; a toggle click on
\* an enabled item whose dropdown is closed leaves that dropdown the only
\* one expanded; on an enabled item whose dropdown is open it closes it; on
\* a disabled item it changes no dropdown; a click that reaches the body
\* closes every dropdown of the instance.
C12_OneDropdown ==
    /\ [](\A t \in TB : Cardinality(Expanded(t)) <= 1)
    /\ [][\A t \in TB :
              /\ \A x \in DOMAIN tbEl[t] :
                     last'.op = "toggle" /\ last'.inst = t /\ last'.id = x =>
                         Expanded(t)' =
                             IF tbItems[t][x].disabled THEN Expanded(t)
                             ELSE IF x \in Expanded(t) THEN {}
                             ELSE {x}
              /\ last'.op \in {"body", "click"} => Expanded(t)' = {}]_vars

\* the dropdown of "opts" was opened by a toggle click and is the only one
\* expanded, after "tools" beside it was enabled
C12_Witness ==
    /\ last.op = "toggle"
    /\ last.id = "opts"
    /\ Expanded(1) = {"opts"}
    /\ "tools" \in DOMAIN tbItems[1]
    /\ ~tbItems[1]["tools"].disabled
    /\ tbBodyBound[1]

\* render of instance t has just run
JustRendered(t) ==
    /\ tbPhase[t] = "rendered"
    /\ last.op \in {"initialize", "load.then"}
    /\ last.inst = t

\* C13: directly after render the element of every item, top-level or
\* sub-item, carries the class 'disabled' exactly when the item's disabled
\* flag is true.
C13_DisabledClass ==
    \A t \in TB :
        JustRendered(t) =>
            \A x \in DOMAIN tbItems[t] :
                ("disabled" \in tbEl[t][x].classes) = tbItems[t][x].disabled

\* the step runs a handler of instance t: one of its custom-event handlers,
\* or one of its click handlers
HandlerRan(t) ==
    \/ /\ last'.op = "emit"
       /\ tbPhase[t] # "constructed"
       /\ last'.name \in {ITEM_ENABLE(t), ITEM_DISABLE(t), ITEM_LOADING(t)}
    \/ /\ last'.op \in {"click", "toggle"}
       /\ last'.inst = t

\* C14: with a url, every handler that runs finds the items map populated
\* and the item it addresses in it: no enable, disable or loading event and
\* no click is handled before render has run.
C14_NoEarlyHandler ==
    [][\A t \in TB :
           ~Falsy(tbOptions[t].url) /\ HandlerRan(t) =>
               /\ tbRenders[t] > 0
               /\ last'.id \in DOMAIN tbItems[t]
               /\ ~last'.raised]_vars

\* C15: the element of an auto-complete never carries the success class and
\* the fail class at the same time.
C15_OneStateClass ==
    \A i \in AC :
        ~(/\ acOptions[i].successClass \in acClasses[i]
          /\ acOptions[i].failClass \in acClasses[i])

====
